---------------------------- MODULE Spec2Model ----------------------------
(***************************************************************************)
(* PAM-aware guide extraction of CRISPRme (src/src/crisprme/utils.py).     *)
(* Strings are modelled as sequences of one-character strings, Python      *)
(* lists as sequences.                                                     *)
(***************************************************************************)
EXTENDS Integers, Sequences, FiniteSets, TLC

VARIABLES
    pc,                \* position of the modelled call
    line,              \* first line of the PAM file, as the tokens of split()
    pam_char,          \* parse_PAM_sequence_file: PAM string
    pam_length,        \* parse_PAM_sequence_file: PAM length
    pam_total_length,  \* parse_PAM_sequence_file: length of the motif token
    pam_start,         \* PAM start flag (parser result / get_guides argument)
    sequence_arg,      \* get_guides: the sequence as passed by the caller
    sequence,          \* get_guides: sequence
    pam,               \* get_guides: pam argument
    pattern,           \* get_guides: the pattern of the current scan
    guide_length,      \* get_guides: guide_length
    pam_iupac,         \* get_guides: forward patterns
    pam_iupac_rev,     \* get_guides: reverse patterns
    pos,               \* get_guides: offsets found by one re.finditer scan
    guides,            \* get_guides: guides list
    ret,               \* value returned by the call (NoValue while none)
    err,               \* "none", or the exception / exit that ended the call
    sequences_raw,     \* parse_guide_sequences_file: the blocks of split(">")
    block,             \* parse_guide_sequences_file: index of the next block
    text_guides,       \* change_url: the guides text, as its lines
    guide_seqlen,      \* change_url: guide length named by the PAM
    pam_len,           \* change_url: PAM length
    pam_begin,         \* change_url: PAM at the beginning
    VALID_CHARS,       \* pages_utils.VALID_CHARS, as imported by main_page.py
    guides_file,       \* change_url: lines written to the guides file (<<>>: none)
    check_guides,      \* check_input: the guides of the text after line 1167
    loop_i,            \* change_url: i, the index of the job id loop
    id_len,            \* change_url: length of the next job id
    generated,         \* change_url: length of the job id generated last (0: none)
    iterations_max,    \* pages_utils.JOBID_ITERATIONS_MAX, as imported
    sub_pc,            \* position of every submission in change_url
    request,           \* parameters and guides of every submission
    job_id,            \* change_url: job_id of every submission
    result,            \* job id returned by every submission (NoValue: none)
    own_dir,           \* the submission has made its results directory
    results_dirs,      \* the directories of RESULTS_DIR, by job id
    pending,           \* exeggutor: jobs submitted and not started
    running,           \* exeggutor: jobs being executed
    submitted          \* job ids ever passed to exeggutor.submit

vars == <<pc, line, pam_char, pam_length, pam_total_length, pam_start,
          sequence_arg, sequence, pam, pattern, guide_length, pam_iupac, pam_iupac_rev,
          pos, guides, ret, err, sequences_raw, block, text_guides,
          guide_seqlen, pam_len, pam_begin, VALID_CHARS, guides_file,
          check_guides,
          loop_i, id_len, generated, iterations_max, sub_pc, request, job_id,
          result, own_dir, results_dirs, pending, running, submitted>>

\* the variables of parse_guide_sequences_file and of change_url
cli_vars == <<sequences_raw, block>>
web_vars == <<text_guides, guide_seqlen, pam_len, pam_begin, VALID_CHARS,
              guides_file, check_guides>>

\* the variables of the job id loop and of the job handling of change_url
id_vars == <<loop_i, id_len, generated, iterations_max>>
job_vars == <<sub_pc, request, job_id, result, own_dir, results_dirs,
              pending, running, submitted>>

NoValue == "NoValue"

\* parse_guide_sequences_file not called
IdleCli ==
    /\ sequences_raw = <<>>
    /\ block = 1

\* no job id generated, no job submitted
IdleJobs ==
    /\ loop_i = 0
    /\ id_len = 0
    /\ generated = 0
    /\ iterations_max = 0
    /\ sub_pc = <<>>
    /\ request = <<>>
    /\ job_id = <<>>
    /\ result = <<>>
    /\ own_dir = <<>>
    /\ results_dirs = <<>>
    /\ pending = <<>>
    /\ running = {}
    /\ submitted = {}

\* change_url not called
IdleWeb ==
    /\ text_guides = <<<<>>>>
    /\ guide_seqlen = 1
    /\ pam_len = 0
    /\ pam_begin = FALSE
    /\ VALID_CHARS = {}
    /\ guides_file = <<>>
    /\ check_guides = {}

-----------------------------------------------------------------------------
(* Bounds *)

MaxSeqLen == 4
MaxPamLen == 1
MaxGuideLen == 2
MaxExpandLen == 2
MaxScanLen == 5
MaxPatLen == 2
MaxMotifLen == 4
MaxPamIdx == 5
MaxShort == 1

MaxBlocks == 2

MaxRegions == 2

MaxLines == 2

MaxSubmissions == 2

MaxJobIds == 3

\* the largest JOBID_ITERATIONS_MAX
MaxIterations == 24

SeqLetters == {"A", "C", "G", "T", "a"}
PamLetters == {"A", "G"}
ScanLetters == {"A", "C"}
MotifLetters == {"N", "G", "A"}

\* characters that are no key of PAM_DICT: lower case, and no IUPAC code
OtherPamLetters == {"n", "g", "X"}

\* a degenerate PAM (SpCas9-NG) next to the concrete ones
ExtraPams == {<<"N", "G">>}

-----------------------------------------------------------------------------
(* Python string and list primitives *)

Min(a, b) == IF a < b THEN a ELSE b
Max(a, b) == IF a > b THEN a ELSE b

Range(s) == {s[k] : k \in 1..Len(s)}

\* words of length n over the letters L
Words(L, n) == [1..n -> L]

WordsUpTo(L, lo, hi) == UNION {Words(L, n) : n \in lo..hi}

\* a slice index of a string of length n, as Python normalises it
SliceIndex(x, n) == IF x < 0 THEN Max(x + n, 0) ELSE Min(x, n)

\* s[a:b]
Slice(s, a, b) ==
    LET lo == SliceIndex(a, Len(s))
        hi == SliceIndex(b, Len(s))
    IN  IF hi <= lo THEN <<>> ELSE SubSeq(s, lo + 1, hi)

\* s[:b]
SliceTo(s, b) == Slice(s, 0, b)

\* s[a:]
SliceFrom(s, a) == Slice(s, a, Len(s))

\* str.upper() on one character
UpperChar(c) ==
    CASE c = "a" -> "A"
      [] c = "c" -> "C"
      [] c = "g" -> "G"
      [] c = "t" -> "T"
      [] c = "n" -> "N"
      [] OTHER -> c

Upper(s) == [k \in 1..Len(s) |-> UpperChar(s[k])]

\* Bio.Seq complement of one (upper case) nucleotide code
ComplementChar(c) ==
    CASE c = "A" -> "T"
      [] c = "C" -> "G"
      [] c = "G" -> "C"
      [] c = "T" -> "A"
      [] c = "M" -> "K"
      [] c = "R" -> "Y"
      [] c = "W" -> "W"
      [] c = "S" -> "S"
      [] c = "Y" -> "R"
      [] c = "K" -> "M"
      [] c = "V" -> "B"
      [] c = "H" -> "D"
      [] c = "D" -> "H"
      [] c = "B" -> "V"
      [] c = "N" -> "N"
      [] OTHER -> c

\* str(Seq(s).reverse_complement())
ReverseComplement(s) == [k \in 1..Len(s) |-> ComplementChar(s[Len(s) + 1 - k])]

-----------------------------------------------------------------------------
(* IUPAC table *)

Bases == {"A", "C", "G", "T"}

IUPACSymbols ==
    {"A", "C", "G", "T", "R", "Y", "S", "W", "K", "M", "B", "D", "H", "V", "N"}

\* a plausible slip: the table of the concrete bases of each code
PAM_DICT_Bases(c) ==
    CASE c = "A" -> <<"A">>
      [] c = "C" -> <<"C">>
      [] c = "G" -> <<"G">>
      [] c = "T" -> <<"T">>
      [] c = "R" -> <<"A","G">>
      [] c = "Y" -> <<"C","T">>
      [] c = "S" -> <<"C","G">>
      [] c = "W" -> <<"A","T">>
      [] c = "K" -> <<"G","T">>
      [] c = "M" -> <<"A","C">>
      [] c = "B" -> <<"C","G","T">>
      [] c = "D" -> <<"A","G","T">>
      [] c = "H" -> <<"A","C","T">>
      [] c = "V" -> <<"A","C","G">>
      [] c = "N" -> <<"A","C","G","T">>

PAM_DICT(c) ==
    CASE c = "A" -> <<"A","R","W","M","D","H","V">>
      [] c = "C" -> <<"C","Y","S","M","B","H","V">>
      [] c = "G" -> <<"G","R","S","K","B","D","V">>
      [] c = "T" -> <<"T","Y","W","K","B","D","H">>
      [] c = "R" -> <<"A","R","W","M","D","H","V","S","K","B","G">>
      [] c = "Y" -> <<"C","Y","S","M","B","H","V","W","K","D","T">>
      [] c = "S" -> <<"C","Y","S","M","B","H","V","K","D","R","G">>
      [] c = "W" -> <<"A","R","W","M","D","H","V","Y","K","B","T">>
      [] c = "K" -> <<"G","R","S","K","B","D","V","Y","W","H","T">>
      [] c = "M" -> <<"A","R","W","M","D","H","V","Y","S","B","C">>
      [] c = "B" -> <<"C","Y","S","M","B","H","V","R","K","D","G","W","T">>
      [] c = "D" -> <<"A","R","W","M","D","H","V","S","K","B","G","Y","T">>
      [] c = "H" -> <<"A","R","W","M","D","H","V","Y","S","B","C","K","T">>
      [] c = "V" -> <<"A","R","W","M","D","H","V","Y","S","B","C","K","G">>
      [] c = "N" -> <<"A","C","G","T","R","Y","S","W","K","M","B","D","H","V">>

-----------------------------------------------------------------------------
(* get_guides: pattern expansion *)

\* a plausible slip: the symbol itself put in front of its table entry
ExpandSymbolsWithSelf(p) == [k \in 1..Len(p) |-> <<p[k]>> \o PAM_DICT(p[k])]

\* [PAM_DICT[c] for c in pam]
ExpandSymbols(p) == [k \in 1..Len(p) |-> PAM_DICT(p[k])]

\* ["".join(e) for e in itertools.product(*lists)]: the leftmost position
\* varies slowest
RECURSIVE Product(_)
Product(lists) ==
    IF lists = <<>> THEN << <<>> >>
    ELSE LET h == Head(lists)
             rest == Product(Tail(lists))
             n == Len(rest)
         IN  [k \in 1..(Len(h) * n) |->
                 <<h[((k - 1) \div n) + 1]>> \o rest[((k - 1) % n) + 1]]

ForwardPatterns(p) == Product(ExpandSymbols(p))

\* a plausible slip: the PAM complemented but not reversed
ReversePatternsNotReversed(p) ==
    Product(ExpandSymbols([k \in 1..Len(p) |-> ComplementChar(p[k])]))

ReversePatterns(p) == Product(ExpandSymbols(ReverseComplement(p)))

-----------------------------------------------------------------------------
(* get_guides: scan *)

\* the lookahead '(?=' + pam + ')' matches at offset i
MatchAt(pat, s, i) ==
    /\ i + Len(pat) <= Len(s)
    /\ SubSeq(s, i + 1, i + Len(pat)) = pat

\* a plausible slip: the pattern searched without lookahead, so that a
\* match consumes its characters
NextSearchPosConsuming(pat, i, matched) ==
    IF matched THEN i + Len(pat) ELSE i + 1

\* where re.finditer resumes after trying offset i: the lookahead consumes
\* no character, so the next attempt is at the next offset
NextSearchPos(pat, i, matched) == i + 1

RECURSIVE FindIterFrom(_, _, _)
FindIterFrom(pat, s, i) ==
    IF i > Len(s) THEN <<>>
    ELSE LET matched == MatchAt(pat, s, i)
         IN  (IF matched THEN <<i>> ELSE <<>>)
                 \o FindIterFrom(pat, s, NextSearchPos(pat, i, matched))

\* [m.start() for m in re.finditer('(?=' + pam + ')', s)]
FindIter(pat, s) == FindIterFrom(pat, s, 0)

-----------------------------------------------------------------------------
(* get_guides: extraction loops *)

\* a plausible slip: a hit with exactly guide_length characters of room
\* is skipped too
ForwardSkipExactFit(s, i, pl, gl, ps) ==
    IF ps THEN i >= (Len(s) - gl - pl) ELSE i <= gl

\* a plausible slip: the boundary tests off by one
ForwardSkipOffByOne(s, i, pl, gl, ps) ==
    IF ps THEN i > (Len(s) - gl - pl) + 1 ELSE i < gl - 1

\* forward loop: the hit at offset i is skipped
ForwardSkip(s, i, pl, gl, ps) ==
    IF ps THEN i > (Len(s) - gl - pl) ELSE i < gl

\* a plausible slip: the guide taken from the wrong flank of the PAM
ForwardSliceWrongFlank(s, i, pl, gl, ps) ==
    IF ps THEN Slice(s, i - gl, i) ELSE Slice(s, i + pl, i + pl + gl)

\* forward loop: the slice appended for the hit at offset i
ForwardSlice(s, i, pl, gl, ps) ==
    IF ps THEN Slice(s, i + pl, i + pl + gl) ELSE Slice(s, i - gl, i)

\* a plausible slip: a reverse hit with exactly guide_length characters of
\* room is skipped too
ReverseSkipExactFit(s, i, pl, gl, ps) ==
    IF ps THEN i <= gl ELSE i >= (Len(s) - gl - pl)

\* a plausible slip: no boundary test for the hits of the reverse strand
ReverseSkipNever(s, i, pl, gl, ps) == FALSE

\* a plausible slip: the boundary test of the forward loop copied
ReverseSkipAsForward(s, i, pl, gl, ps) ==
    IF ps THEN i > (Len(s) - gl - pl) ELSE i < gl

\* reverse loop: the hit at offset i is skipped
ReverseSkip(s, i, pl, gl, ps) ==
    IF ps THEN i < gl ELSE i > (Len(s) - gl - pl)

\* a plausible slip: the slice of a reverse hit reported as it is read on
\* the forward strand
ReverseSliceNotComplemented(s, i, pl, gl, ps) ==
    IF ps THEN Slice(s, i - gl, i) ELSE Slice(s, i + pl, i + gl + pl)

\* reverse loop: the guide appended for the hit at offset i
ReverseSlice(s, i, pl, gl, ps) ==
    IF ps THEN ReverseComplement(Slice(s, i - gl, i))
          ELSE ReverseComplement(Slice(s, i + pl, i + gl + pl))

\* "for i in pos" of the forward loop, from the k-th hit on
RECURSIVE ForwardHits(_, _, _, _, _, _)
ForwardHits(s, hits, k, pl, gl, ps) ==
    IF k > Len(hits) THEN <<>>
    ELSE (IF ForwardSkip(s, hits[k], pl, gl, ps) THEN <<>>
          ELSE <<ForwardSlice(s, hits[k], pl, gl, ps)>>)
             \o ForwardHits(s, hits, k + 1, pl, gl, ps)

\* "for i in pos" of the reverse loop, from the k-th hit on
RECURSIVE ReverseHits(_, _, _, _, _, _)
ReverseHits(s, hits, k, pl, gl, ps) ==
    IF k > Len(hits) THEN <<>>
    ELSE (IF ReverseSkip(s, hits[k], pl, gl, ps) THEN <<>>
          ELSE <<ReverseSlice(s, hits[k], pl, gl, ps)>>)
             \o ReverseHits(s, hits, k + 1, pl, gl, ps)

\* the lists lists[lo], ..., lists[hi] appended to one another in order
RECURSIVE Concat(_, _, _)
Concat(lists, lo, hi) ==
    IF lo > hi THEN <<>>
    ELSE IF lo = hi THEN lists[lo]
    ELSE LET mid == (lo + hi) \div 2
         IN  Concat(lists, lo, mid) \o Concat(lists, mid + 1, hi)

\* "for pam in pam_iupac": the guides appended by the forward loop, the
\* k-th pattern contributing the guides of its scan
ForwardLoop(s, patterns, pl, gl, ps) ==
    Concat([k \in 1..Len(patterns) |->
               ForwardHits(s, FindIter(patterns[k], s), 1, pl, gl, ps)],
           1, Len(patterns))

\* "for pam in pam_iupac_rev": the guides appended by the reverse loop
ReverseLoop(s, patterns, pl, gl, ps) ==
    Concat([k \in 1..Len(patterns) |->
               ReverseHits(s, FindIter(patterns[k], s), 1, pl, gl, ps)],
           1, Len(patterns))

-----------------------------------------------------------------------------
(* parse_PAM_sequence_file: tokens and int() *)

Digits == <<"0", "1", "2", "3", "4", "5", "6", "7", "8", "9">>

DigitValue(c) == CHOOSE d \in 0..9 : Digits[d + 1] = c

IsDigit(c) == c \in Range(Digits)

\* the digits of a token after an optional sign
Unsigned(t) == IF t # <<>> /\ t[1] \in {"-", "+"} THEN Tail(t) ELSE t

\* int(t) does not raise ValueError
IsIntToken(t) ==
    /\ Unsigned(t) # <<>>
    /\ \A k \in 1..Len(Unsigned(t)) : IsDigit(Unsigned(t)[k])

RECURSIVE DigitsValue(_)
DigitsValue(ds) ==
    IF ds = <<>> THEN 0
    ELSE 10 * DigitsValue(SubSeq(ds, 1, Len(ds) - 1)) + DigitValue(ds[Len(ds)])

\* int(t)
IntValue(t) ==
    IF t[1] = "-" THEN 0 - DigitsValue(Unsigned(t)) ELSE DigitsValue(Unsigned(t))

\* the text of the integer k, -99 <= k <= 99
IntToken(k) ==
    LET a == IF k < 0 THEN 0 - k ELSE k
        ds == IF a < 10 THEN <<Digits[a + 1]>>
              ELSE <<Digits[(a \div 10) + 1], Digits[(a % 10) + 1]>>
    IN  IF k < 0 THEN <<"-">> \o ds ELSE ds

-----------------------------------------------------------------------------
(* Inputs *)

MotifTokens == WordsUpTo(MotifLetters, 1, MaxMotifLen)

IntTokens == {IntToken(k) : k \in (0 - MaxPamIdx)..MaxPamIdx}

\* first lines of a PAM file: blank, one token, or motif and index
Lines ==
    {<<>>}
        \cup {<<t>> : t \in WordsUpTo(MotifLetters, 1, 1) \cup IntTokens}
        \cup {<<m, t>> : m \in MotifTokens,
                         t \in IntTokens \cup WordsUpTo(MotifLetters, 1, 1)}

-----------------------------------------------------------------------------
(* parse_PAM_sequence_file (utils.py) *)

\* a plausible slip: the sign convention reversed
PamStartSwapped(pam_value_idx) == pam_value_idx > 0

\* the branch taken at "if pam_value_idx < 0": PAM at the start of the motif
PamStart(pam_value_idx) == pam_value_idx < 0

parse_PAM_sequence_file ==
    /\ pc = "parse_PAM"
    /\ UNCHANGED <<cli_vars, web_vars, id_vars, job_vars>>
    /\ pc' = "parsed"
    /\ IF line = <<>>
       THEN \* pam_char.split()[0] raises IndexError, caught by the bare except
            /\ err' = "OSError"
            /\ UNCHANGED <<pam_char, pam_length, pam_total_length, pam_start, ret>>
       ELSE IF ~IsIntToken(line[Len(line)])
       THEN \* int() raises ValueError; exception_handler exits, and the
            \* SystemExit is caught by the bare except
            /\ err' = "OSError"
            /\ pam_total_length' = Len(line[1])
            /\ UNCHANGED <<pam_char, pam_length, pam_start, ret>>
       ELSE LET pam_value_idx == IntValue(line[Len(line)])
                end_idx == IF pam_value_idx < 0 THEN 0 - pam_value_idx
                           ELSE pam_value_idx
            IN  /\ pam_total_length' = Len(line[1])
                /\ pam_char' = IF PamStart(pam_value_idx)
                               THEN SliceTo(line[1], end_idx)
                               ELSE SliceFrom(line[1], 0 - end_idx)
                /\ pam_length' = end_idx
                /\ pam_start' = PamStart(pam_value_idx)
                /\ ret' = <<pam_char', pam_length', pam_total_length', pam_start'>>
                /\ err' = "none"
    /\ UNCHANGED <<line, sequence_arg, sequence, pam, pattern, guide_length, pam_iupac,
                   pam_iupac_rev, pos, guides>>

InitPam ==
    /\ pc = "parse_PAM"
    /\ IdleJobs
    /\ IdleCli
    /\ IdleWeb
    /\ line \in Lines
    /\ pam_char = NoValue
    /\ pam_length = 0
    /\ pam_total_length = 0
    /\ pam_start = FALSE
    /\ sequence_arg = <<>>
    /\ sequence = <<>>
    /\ pam = <<>>
    /\ pattern = <<>>
    /\ guide_length = 1
    /\ pam_iupac = <<>>
    /\ pam_iupac_rev = <<>>
    /\ pos = <<>>
    /\ guides = <<>>
    /\ ret = NoValue
    /\ err = "none"

NextPam == parse_PAM_sequence_file

SpecPam == InitPam /\ [][NextPam]_vars

-----------------------------------------------------------------------------
(* get_guides (utils.py) *)

\* lines 563-571: patterns of both strands, upper-cased sequence
get_guides_expand ==
    /\ pc = "get_guides"
    /\ UNCHANGED <<cli_vars, web_vars, id_vars, job_vars>>
    /\ IF \E j \in 1..Len(pam) : pam[j] \notin IUPACSymbols
       THEN \* PAM_DICT[c] raises KeyError at line 565; nothing catches it
            /\ pc' = "done"
            /\ err' = "KeyError"
            /\ UNCHANGED <<pam_iupac, pam_iupac_rev, sequence, guides>>
       ELSE /\ pc' = "forward"
            /\ pam_iupac' = ForwardPatterns(pam)
            /\ pam_iupac_rev' = ReversePatterns(pam)
            /\ sequence' = Upper(sequence)
            /\ guides' = <<>>
            /\ err' = err
    /\ UNCHANGED <<line, pam_char, pam_length, pam_total_length, pam_start,
                   sequence_arg, pam, pattern, guide_length, pos, ret>>

\* lines 573-589: extract guides (on forward)
get_guides_forward ==
    /\ pc = "forward"
    /\ UNCHANGED <<cli_vars, web_vars, id_vars, job_vars>>
    /\ pc' = "reverse"
    /\ guides' = guides \o ForwardLoop(sequence, pam_iupac, Len(pam),
                                       guide_length, pam_start)
    /\ UNCHANGED <<line, pam_char, pam_length, pam_total_length, pam_start,
                   sequence_arg, sequence, pam, pattern, guide_length, pam_iupac,
                   pam_iupac_rev, pos, ret, err>>

\* lines 590-618: extract guides (on reverse), assert, return
get_guides_reverse ==
    /\ pc = "reverse"
    /\ UNCHANGED <<cli_vars, web_vars, id_vars, job_vars>>
    /\ pc' = "done"
    /\ guides' = guides \o ReverseLoop(sequence, pam_iupac_rev, Len(pam),
                                       guide_length, pam_start)
    /\ IF guides' = <<>>
       THEN /\ err' = "AssertionError"
            /\ ret' = NoValue
       ELSE /\ err' = "none"
            /\ ret' = guides'
    /\ UNCHANGED <<line, pam_char, pam_length, pam_total_length, pam_start,
                   sequence_arg, sequence, pam, pattern, guide_length, pam_iupac,
                   pam_iupac_rev, pos>>

Init ==
    /\ pc = "get_guides"
    /\ IdleJobs
    /\ IdleCli
    /\ IdleWeb
    /\ line = <<>>
    /\ pam_char = NoValue
    /\ pam_length = 0
    /\ pam_total_length = 0
    /\ pattern = <<>>
    /\ pam_iupac = <<>>
    /\ pam_iupac_rev = <<>>
    /\ pos = <<>>
    /\ guides = <<>>
    /\ ret = NoValue
    /\ err = "none"
    /\ sequence_arg \in WordsUpTo(SeqLetters, 0, MaxSeqLen)
    /\ sequence = sequence_arg
    /\ pam \in WordsUpTo(PamLetters, 1, MaxPamLen) \cup ExtraPams
    /\ guide_length \in 1..MaxGuideLen
    /\ pam_start \in BOOLEAN

Next ==
    \/ get_guides_expand
    \/ get_guides_forward
    \/ get_guides_reverse

Spec == Init /\ [][Next]_vars

-----------------------------------------------------------------------------
(* Pattern expansion alone, over the whole IUPAC table *)

\* the PAM of the Cas9 example (PAMs/..-NGG)
NGG == <<"N", "G", "G">>

InitExpand ==
    /\ pc = "get_guides"
    /\ IdleJobs
    /\ IdleCli
    /\ IdleWeb
    /\ line = <<>>
    /\ pam_char = NoValue
    /\ pam_length = 0
    /\ pam_total_length = 0
    /\ pattern = <<>>
    /\ pam_iupac = <<>>
    /\ pam_iupac_rev = <<>>
    /\ pos = <<>>
    /\ guides = <<>>
    /\ ret = NoValue
    /\ err = "none"
    /\ sequence_arg = <<>>
    /\ sequence = <<>>
    /\ guide_length = 1
    /\ pam_start = FALSE
    /\ pam \in WordsUpTo(IUPACSymbols, 1, MaxExpandLen) \cup {NGG}
                \cup WordsUpTo(OtherPamLetters \cup {"G"}, 1, MaxExpandLen)

NextExpand == get_guides_expand

SpecExpand == InitExpand /\ [][NextExpand]_vars

-----------------------------------------------------------------------------
(* get_guides on the Cas9 sequences: 20 nt guides next to an NGG PAM *)

\* the guide length of the default PAM 20bp-NGG-SpCas9
Cas9GuideLen == 20

\* the character c repeated n times
Run(c, n) == [k \in 1..n |-> c]

\* runs of one base, of full or nearly full guide length
Cas9Runs == {Run(c, n) : c \in Bases, n \in (Cas9GuideLen - MaxShort)..Cas9GuideLen}

\* a run followed by a forward PAM site, or preceded by a reverse PAM site
Cas9Sequences ==
    {r \o t : r \in Cas9Runs,
              t \in {<<"T", "G", "G">>, <<"C", "G", "G">>, <<"T", "G", "A">>}}
        \cup {h \o r : r \in Cas9Runs,
                        h \in {<<"C", "C">>, <<"C", "C", "A">>, <<"C", "C", "G">>}}

InitCas9 ==
    /\ pc = "get_guides"
    /\ IdleJobs
    /\ IdleCli
    /\ IdleWeb
    /\ line = <<>>
    /\ pam_char = NoValue
    /\ pam_length = 0
    /\ pam_total_length = 0
    /\ pattern = <<>>
    /\ pam_iupac = <<>>
    /\ pam_iupac_rev = <<>>
    /\ pos = <<>>
    /\ guides = <<>>
    /\ ret = NoValue
    /\ err = "none"
    /\ sequence_arg \in Cas9Sequences
    /\ sequence = sequence_arg
    /\ pam = NGG
    /\ guide_length = Cas9GuideLen
    /\ pam_start \in BOOLEAN

SpecCas9 == InitCas9 /\ [][Next]_vars

-----------------------------------------------------------------------------
(* get_guides on sequences of bases, with PAMs that are or are not their own
   reverse complement *)

StrandPams == {<<"G">>, <<"N">>, <<"A", "T">>, <<"N", "G">>}

InitStrand ==
    /\ pc = "get_guides"
    /\ IdleJobs
    /\ IdleCli
    /\ IdleWeb
    /\ line = <<>>
    /\ pam_char = NoValue
    /\ pam_length = 0
    /\ pam_total_length = 0
    /\ pattern = <<>>
    /\ pam_iupac = <<>>
    /\ pam_iupac_rev = <<>>
    /\ pos = <<>>
    /\ guides = <<>>
    /\ ret = NoValue
    /\ err = "none"
    /\ sequence_arg \in WordsUpTo(Bases, 0, MaxSeqLen)
    /\ sequence = sequence_arg
    /\ pam \in StrandPams
    /\ guide_length \in 1..MaxGuideLen
    /\ pam_start \in BOOLEAN

SpecStrand == InitStrand /\ [][Next]_vars

-----------------------------------------------------------------------------
(* One scan of the sequence for one pattern (lines 575 and 592) *)

finditer ==
    /\ pc = "finditer"
    /\ UNCHANGED <<cli_vars, web_vars, id_vars, job_vars>>
    /\ pc' = "scanned"
    /\ pos' = FindIter(pattern, sequence)
    /\ UNCHANGED <<line, pam_char, pam_length, pam_total_length, pam_start,
                   sequence_arg, sequence, pam, pattern, guide_length, pam_iupac,
                   pam_iupac_rev, guides, ret, err>>

InitScan ==
    /\ pc = "finditer"
    /\ IdleJobs
    /\ IdleCli
    /\ IdleWeb
    /\ line = <<>>
    /\ pam_char = NoValue
    /\ pam_length = 0
    /\ pam_total_length = 0
    /\ pam = <<>>
    /\ pam_iupac = <<>>
    /\ pam_iupac_rev = <<>>
    /\ pos = <<>>
    /\ guides = <<>>
    /\ ret = NoValue
    /\ err = "none"
    /\ guide_length = 1
    /\ pam_start = FALSE
    /\ pattern \in WordsUpTo(ScanLetters, 1, MaxPatLen)
    /\ sequence_arg \in WordsUpTo(ScanLetters, 0, MaxScanLen)
    /\ sequence = sequence_arg

NextScan == finditer

SpecScan == InitScan /\ [][NextScan]_vars

-----------------------------------------------------------------------------
(* parse_guide_sequences_file (utils.py) *)

\* the positional parameters get_guides requires (lines 515-517), and the
\* arguments it is called with (lines 417 and 420)
GetGuidesParams == 5

GetGuidesArgs == 4

\* get_guides as one call: the exception that ends it, or the list returned
GetGuides(seq, p, gl, ps) ==
    IF \E j \in 1..Len(p) : p[j] \notin IUPACSymbols
    THEN [err |-> "KeyError", value |-> NoValue]
    ELSE LET s == Upper(seq)
             g == ForwardLoop(s, ForwardPatterns(p), Len(p), gl, ps)
                      \o ReverseLoop(s, ReversePatterns(p), Len(p), gl, ps)
         IN  IF g = <<>>
             THEN [err |-> "AssertionError", value |-> NoValue]
             ELSE [err |-> "none", value |-> g]

\* get_guides(sequence, pam, guide_length, pam_start): the arguments are
\* bound to the parameters before the body runs
CallGetGuides(seq, p, gl, ps) ==
    IF GetGuidesArgs < GetGuidesParams
    THEN [err |-> "TypeError", value |-> NoValue]
    ELSE GetGuides(seq, p, gl, ps)

\* extract_sequence did not return: exception_handler, or an exception of
\* the file system or of pybedtools (lines 480-512)
FetchError == "FetchError"

\* sequences of a block, as typed or as extract_sequence reads them
CliSequences == {<<>>, <<"A", "G">>}

\* what extract_sequence does for one BED line: the sequence read, or none
Regions ==
    {[fetched |-> TRUE, sequence |-> w] : w \in CliSequences}
        \cup {[fetched |-> FALSE, sequence |-> <<>>]}

\* blocks of sequences_raw.split(">"): empty, one sequence, or BED lines
Blocks ==
    {[kind |-> "empty", regions |-> <<>>]}
        \cup {[kind |-> "seq",
               regions |-> <<[fetched |-> TRUE, sequence |-> w]>>] :
                  w \in CliSequences}
        \cup {[kind |-> "bed", regions |-> r] :
                  r \in WordsUpTo(Regions, 1, MaxRegions)}

\* lines 409-417 and 419-420: the sequences of one block, from the k-th on;
\* the first call that does not return ends the loop
RECURSIVE BlockLoop(_, _, _, _, _, _)
BlockLoop(regions, k, acc, p, gl, ps) ==
    IF k > Len(regions) THEN [err |-> "none", guides |-> acc]
    ELSE IF ~regions[k].fetched
    THEN [err |-> FetchError, guides |-> acc]
    ELSE LET r == CallGetGuides(regions[k].sequence, p, gl, ps)
         IN  IF r.err # "none" THEN [err |-> r.err, guides |-> acc]
             ELSE BlockLoop(regions, k + 1, Append(acc, r.value), p, gl, ps)

\* lines 402-420: one pass of "for seqname_and_seq in ..."
parse_guide_sequences_file_block ==
    /\ pc = "parse_guide_sequences_file"
    /\ block <= Len(sequences_raw)
    /\ LET b == sequences_raw[block]
           r == BlockLoop(b.regions, 1, guides, pam, guide_length, pam_start)
       IN  IF b.kind = "empty"
           THEN /\ block' = block + 1
                /\ UNCHANGED <<pc, guides, err>>
           ELSE IF r.err # "none"
           THEN /\ pc' = "returned"
                /\ err' = r.err
                /\ guides' = r.guides
                /\ block' = block
           ELSE /\ guides' = r.guides
                /\ block' = block + 1
                /\ UNCHANGED <<pc, err>>
    /\ UNCHANGED <<line, pam_char, pam_length, pam_total_length, pam_start,
                   sequence_arg, sequence, pam, pattern, guide_length, pam_iupac,
                   pam_iupac_rev, pos, ret, sequences_raw, web_vars, id_vars,
                   job_vars>>

\* lines 421-434: every entry of guides is a list, the value of one
\* get_guides call, and "".join([n_prefix, guide]) raises TypeError on it;
\* with no entry the loop and the limit of line 431 do nothing
parse_guide_sequences_file_pad ==
    /\ pc = "parse_guide_sequences_file"
    /\ block > Len(sequences_raw)
    /\ pc' = "returned"
    /\ IF guides # <<>>
       THEN /\ err' = "TypeError"
            /\ ret' = NoValue
       ELSE /\ err' = "none"
            /\ ret' = <<>>
    /\ UNCHANGED <<line, pam_char, pam_length, pam_total_length, pam_start,
                   sequence_arg, sequence, pam, pattern, guide_length, pam_iupac,
                   pam_iupac_rev, pos, guides, cli_vars, web_vars, id_vars,
                   job_vars>>

InitCli ==
    /\ pc = "parse_guide_sequences_file"
    /\ IdleJobs
    /\ IdleWeb
    /\ sequences_raw \in WordsUpTo(Blocks, 0, MaxBlocks)
    /\ block = 1
    /\ line = <<>>
    /\ pam_char = NoValue
    /\ pam_total_length = 0
    /\ sequence_arg = <<>>
    /\ sequence = <<>>
    /\ pattern = <<>>
    /\ pam_iupac = <<>>
    /\ pam_iupac_rev = <<>>
    /\ pos = <<>>
    /\ guides = <<>>
    /\ ret = NoValue
    /\ err = "none"
    /\ pam = <<"G">>
    /\ pam_length = 1
    /\ guide_length = 1
    /\ pam_start \in BOOLEAN

NextCli ==
    \/ parse_guide_sequences_file_block
    \/ parse_guide_sequences_file_pad

SpecCli == InitCli /\ [][NextCli]_vars

-----------------------------------------------------------------------------
(* change_url (main_page.py): the guides typed in the page, guide_type not
   "GS".  A text is the list of its lines, text.split("\n"); the empty text
   is one empty line. *)

\* the guides kept for one submission (line 574)
WebLimit == 100

\* characters typed in the guides box
WebLetters == {"A", "n", "1"}

\* VALID_CHARS is imported from pages_utils (line 25) and tested at line
\* 570: any set of the characters a line can hold after upper()
ValidCharSets == SUBSET {UpperChar(c) : c \in WebLetters}

\* texts whose lines have one length, for which select_same_len_guides
\* (line 347) is not called: a few lines, or one line about WebLimit times
WebTexts ==
    {<<<<>>>>}
        \cup UNION {WordsUpTo(Words(WebLetters, n), 1, MaxLines) :
                        n \in 1..MaxGuideLen}
        \cup {[k \in 1..n |-> w] :
                  w \in Words(WebLetters, 1),
                  n \in (WebLimit - 1)..(WebLimit + MaxLines)}

RECURSIVE DropLeadingEmpty(_)
DropLeadingEmpty(ls) ==
    IF ls # <<>> /\ Head(ls) = <<>> THEN DropLeadingEmpty(Tail(ls)) ELSE ls

RECURSIVE DropTrailingEmpty(_)
DropTrailingEmpty(ls) ==
    IF ls # <<>> /\ ls[Len(ls)] = <<>>
    THEN DropTrailingEmpty(SubSeq(ls, 1, Len(ls) - 1))
    ELSE ls

\* text.strip(), for a text without blanks: the empty lines at both ends go
StripText(ls) ==
    LET t == DropTrailingEmpty(DropLeadingEmpty(ls))
    IN  IF t = <<>> THEN <<<<>>>> ELSE t

\* lines 348-352: guide.replace("N", "") on every line, then strip()
RemoveNs(ls) ==
    LET NotN(c) == c # "N"
    IN  StripText([k \in 1..Len(ls) |-> SelectSeq(ls[k], NotN)])

\* lines 560-566: upper(), the lines of guide_seqlen characters, or the
\* placeholder when there is none
SuitableGuides(ls, n) ==
    LET HasLen(g) == Len(g) = n
        t == SelectSeq([k \in 1..Len(ls) |-> Upper(ls[k])], HasLen)
    IN  IF t = <<>> THEN <<Run("A", n)>> ELSE t

\* lines 567-572: text_guides.replace(nt, "") for every character of a line
\* that is not in VALID_CHARS
RemoveForbidden(ls, valid) ==
    LET IsValid(c) == c \in valid
    IN  [k \in 1..Len(ls) |-> SelectSeq(ls[k], IsValid)]

\* a plausible slip: the limit tested but the lines not cut
LimitGuidesNotCut(ls) ==
    IF Len(ls) > WebLimit THEN StripText(ls) ELSE ls

\* lines 574-575
LimitGuides(ls) ==
    IF Len(ls) > WebLimit THEN StripText(SubSeq(ls, 1, WebLimit)) ELSE ls

\* lines 594-601: "N" * pam_len in front of, or behind, every line
PadLines(ls, begin, n) ==
    [k \in 1..Len(ls) |->
        IF begin THEN Run("N", n) \o ls[k] ELSE ls[k] \o Run("N", n)]

change_url ==
    /\ pc = "change_url"
    /\ pc' = "submitted"
    /\ LET typed == IF text_guides = <<<<>>>>
                    THEN <<Run("A", guide_seqlen)>>
                    ELSE StripText(text_guides)
           suitable == SuitableGuides(RemoveNs(typed), guide_seqlen)
           cleaned == LimitGuides(RemoveForbidden(suitable, VALID_CHARS))
       IN  IF cleaned # <<<<>>>>
           THEN /\ text_guides' = PadLines(cleaned, pam_begin, pam_len)
                /\ guides_file' = text_guides'
           ELSE /\ text_guides' = cleaned
                /\ guides_file' = guides_file
    /\ UNCHANGED <<line, pam_char, pam_length, pam_total_length, pam_start,
                   sequence_arg, sequence, pam, pattern, guide_length, pam_iupac,
                   pam_iupac_rev, pos, guides, ret, err, cli_vars,
                   guide_seqlen, pam_len, pam_begin, VALID_CHARS,
                   check_guides, id_vars, job_vars>>

InitWeb ==
    /\ pc = "change_url"
    /\ IdleJobs
    /\ IdleCli
    /\ text_guides \in WebTexts
    /\ guide_seqlen \in 1..MaxGuideLen
    /\ pam_len \in 1..MaxPamLen
    /\ pam_begin \in BOOLEAN
    /\ VALID_CHARS \in ValidCharSets
    /\ guides_file = <<>>
    /\ check_guides = {}
    /\ line = <<>>
    /\ pam_char = NoValue
    /\ pam_length = 0
    /\ pam_total_length = 0
    /\ pam_start = FALSE
    /\ sequence_arg = <<>>
    /\ sequence = <<>>
    /\ pam = <<>>
    /\ pattern = <<>>
    /\ guide_length = 1
    /\ pam_iupac = <<>>
    /\ pam_iupac_rev = <<>>
    /\ pos = <<>>
    /\ guides = <<>>
    /\ ret = NoValue
    /\ err = "none"

NextWeb == change_url

SpecWeb == InitWeb /\ [][NextWeb]_vars

-----------------------------------------------------------------------------
(* guide_type "GS" in check_input and in change_url (main_page.py):        *)
(* the guides are extracted from the sequences of the text                 *)

\* sequences of a block, as typed or as extractSequence reads them
GsSequences == {<<"A", "G">>, <<"C", "G">>, <<"G", "A">>, <<"T", "T">>}

\* blocks of text_guides.split(">"): empty, one sequence, or BED lines;
\* extractSequence (seq_script) returns the sequence of the region
GsBlocks ==
    {[kind |-> "empty", regions |-> <<>>]}
        \cup {[kind |-> "seq",
               regions |-> <<[fetched |-> TRUE, sequence |-> w]>>] :
                  w \in GsSequences}
        \cup {[kind |-> "bed", regions |-> r] :
                  r \in WordsUpTo({[fetched |-> TRUE, sequence |-> w] :
                                      w \in GsSequences}, 1, MaxRegions)}

\* convert_pam.getGuides (seq_script): the guides of one sequence, as one
\* collection; it has no guide when no PAM occurrence leaves room for one
getGuides(seq, p, gl, pb) ==
    Range(ForwardLoop(Upper(seq), ForwardPatterns(p), Len(p), gl, pb)
              \o ReverseLoop(Upper(seq), ReversePatterns(p), Len(p), gl, pb))

\* "\n".join("A" * n): the placeholder is a string, and join takes its
\* characters one by one (lines 556-558 and 1164-1167)
JoinedPlaceholder(n) == [k \in 1..n |-> <<"A">>]

\* lines 1132-1167 of check_input: guides.extend(...) for every sequence
\* and for every BED line, then list(set(guides)) and the placeholder
check_input ==
    /\ pc = "check_input"
    /\ pc' = "change_url_gs"
    /\ LET found ==
               UNION {UNION {getGuides(sequences_raw[b].regions[k].sequence,
                                       pam, guide_seqlen, pam_begin) :
                                k \in 1..Len(sequences_raw[b].regions)} :
                         b \in 1..Len(sequences_raw)}
       IN  check_guides' = IF found = {}
                           THEN Range(JoinedPlaceholder(guide_seqlen))
                           ELSE found
    /\ UNCHANGED <<line, pam_char, pam_length, pam_total_length, pam_start,
                   sequence_arg, sequence, pam, pattern, guide_length,
                   pam_iupac, pam_iupac_rev, pos, guides, ret, err, cli_vars,
                   text_guides, guide_seqlen, pam_len, pam_begin, VALID_CHARS,
                   guides_file, id_vars, job_vars>>

\* line 554: set() hashes every entry of guides, and an entry is the
\* collection one getGuides call returned, which cannot be hashed
SetRaises(entries) == entries # <<>>

\* lines 531-553 of change_url: one pass of "for seqname_and_seq in ...";
\* every BED line assigns seq_read, and guides.append(...) follows the loop
\* over the lines, so it takes the sequence of the last line
change_url_gs_block ==
    /\ pc = "change_url_gs"
    /\ block <= Len(sequences_raw)
    /\ block' = block + 1
    /\ LET b == sequences_raw[block]
           seq_read == b.regions[Len(b.regions)].sequence
       IN  IF b.kind = "empty"
           THEN guides' = guides
           ELSE guides' = Append(guides, getGuides(seq_read, pam, guide_seqlen,
                                                   pam_begin))
    /\ UNCHANGED <<pc, line, pam_char, pam_length, pam_total_length,
                   pam_start, sequence_arg, sequence, pam, pattern,
                   guide_length, pam_iupac, pam_iupac_rev, pos, ret, err,
                   sequences_raw, web_vars, id_vars, job_vars>>

\* lines 554-559 of change_url: list(set(guides)), the placeholder, and
\* the text of the guides
change_url_gs_join ==
    /\ pc = "change_url_gs"
    /\ block > Len(sequences_raw)
    /\ IF SetRaises(guides)
       THEN /\ pc' = "raised"
            /\ err' = "TypeError"
            /\ text_guides' = text_guides
       ELSE /\ pc' = "change_url"
            /\ err' = err
            /\ text_guides' = JoinedPlaceholder(guide_seqlen)
    /\ UNCHANGED <<line, pam_char, pam_length, pam_total_length, pam_start,
                   sequence_arg, sequence, pam, pattern, guide_length,
                   pam_iupac, pam_iupac_rev, pos, guides, ret, cli_vars,
                   guide_seqlen, pam_len, pam_begin, VALID_CHARS, guides_file,
                   check_guides, id_vars, job_vars>>

InitGs ==
    /\ pc = "check_input"
    /\ IdleJobs
    /\ sequences_raw \in WordsUpTo(GsBlocks, 0, MaxBlocks)
    /\ block = 1
    /\ text_guides = <<<<>>>>
    /\ guide_seqlen \in 1..MaxGuideLen
    /\ pam_len = 1
    /\ pam_begin \in BOOLEAN
    /\ VALID_CHARS \in ValidCharSets
    /\ guides_file = <<>>
    /\ check_guides = {}
    /\ line = <<>>
    /\ pam_char = NoValue
    /\ pam_length = 0
    /\ pam_total_length = 0
    /\ pam_start = FALSE
    /\ sequence_arg = <<>>
    /\ sequence = <<>>
    /\ pam = <<"G">>
    /\ pattern = <<>>
    /\ guide_length = 1
    /\ pam_iupac = <<>>
    /\ pam_iupac_rev = <<>>
    /\ pos = <<>>
    /\ guides = <<>>
    /\ ret = NoValue
    /\ err = "none"

NextGs ==
    \/ check_input
    \/ change_url_gs_block
    \/ change_url_gs_join
    \/ change_url

SpecGs == InitGs /\ [][NextGs]_vars

-----------------------------------------------------------------------------
(* change_url (main_page.py) and exeggutor (app.py): results directories,
   reuse of previous searches, submission of the search *)

\* the variables that no job step changes
not_job_vars ==
    <<pc, line, pam_char, pam_length, pam_total_length, pam_start,
      sequence_arg, sequence, pam, pattern, guide_length, pam_iupac,
      pam_iupac_rev, pos, guides, ret, err, cli_vars, web_vars, id_vars>>

\* max_workers of the ProcessPoolExecutor
max_workers == 1

Submissions == 1..MaxSubmissions

\* job ids the generator can come up with
JobIds == 1..MaxJobIds

\* no job id generated yet, nothing returned yet
NoJob == 0

\* contents of the parameters file and of the guides file of a submission;
\* the guides file is not written when the guides text is empty (line 591)
ParamsFiles == {"params1", "params2"}

GuidesFiles == {"guides1", "guides2"}

Requests ==
    {[params |-> a, guides |-> g] :
        a \in ParamsFiles, g \in GuidesFiles \cup {NoValue}}

\* a plausible slip: mkdir -p, which accepts a directory that exists
MkdirFailsNever(id, dirs) == FALSE

\* "mkdir result_dir" returns an error code: the directory exists
MkdirFails(id, dirs) == id \in DOMAIN dirs

\* the directories with d added or replaced
WithDir(dirs, d, content) ==
    [x \in DOMAIN dirs \cup {d} |-> IF x = d THEN content ELSE dirs[x]]

WithoutDir(dirs, d) == [x \in DOMAIN dirs \ {d} |-> dirs[x]]

\* lines 668-686: the other directories whose parameters file is that of s
SameParams(s) ==
    {d \in DOMAIN results_dirs \ {job_id[s]} :
        /\ results_dirs[d].params # NoValue
        /\ results_dirs[d].params = request[s].params}

\* lines 687-707: open() fails on a guides file that does not exist
GuidesUnreadable(d, s) ==
    \/ results_dirs[d].guides = NoValue
    \/ results_dirs[job_id[s]].guides = NoValue

\* lines 708-712: the guides of both files, as multisets of lines, agree
SameGuides(d, s) ==
    /\ ~GuidesUnreadable(d, s)
    /\ results_dirs[d].guides = results_dirs[job_id[s]].guides

\* lines 353-377: the id the loop ends with, with the job name in front of
\* it; between the listing of the directories and mkdir another submission
\* can create its directory, and the loop leaves an assigned id when it
\* runs out, so the id is any id. Lines 378-388: mkdir, then touch queue.txt
create_results_directory(s) ==
    /\ sub_pc[s] = "mkdir"
    /\ \E id \in JobIds :
           /\ job_id' = [job_id EXCEPT ![s] = id]
           /\ IF MkdirFails(id, results_dirs)
              THEN /\ sub_pc' = [sub_pc EXCEPT ![s] = "raised"]
                   /\ UNCHANGED <<own_dir, results_dirs>>
              ELSE /\ sub_pc' = [sub_pc EXCEPT ![s] = "write"]
                   /\ own_dir' = [own_dir EXCEPT ![s] = TRUE]
                   /\ results_dirs' =
                          WithDir(results_dirs, id,
                                  [queue |-> TRUE, params |-> NoValue,
                                   guides |-> NoValue, log |-> "none"])
    /\ UNCHANGED <<request, result, pending, running, submitted>>
    /\ UNCHANGED not_job_vars

\* lines 591-604 and 648-664: the guides file, then the parameters file
write_job_files(s) ==
    /\ sub_pc[s] = "write"
    /\ sub_pc' = [sub_pc EXCEPT ![s] = "compare"]
    /\ results_dirs' =
           [results_dirs EXCEPT ![job_id[s]].guides = request[s].guides,
                                ![job_id[s]].params = request[s].params]
    /\ UNCHANGED <<request, job_id, result, own_dir, pending, running,
                   submitted>>
    /\ UNCHANGED not_job_vars

\* lines 666-938: the directories are visited in the order of os.listdir,
\* which is any order
check_previous_searches(s) ==
    /\ sub_pc[s] = "compare"
    /\ \/ \* a guides file cannot be opened: OSError
          /\ \E d \in SameParams(s) : GuidesUnreadable(d, s)
          /\ sub_pc' = [sub_pc EXCEPT ![s] = "raised"]
          /\ UNCHANGED <<result, own_dir, results_dirs, pending, submitted>>
       \/ \* lines 713-863: log file found, the directory of s is removed
          \E d \in SameParams(s) :
              /\ SameGuides(d, s)
              /\ results_dirs[d].log # "none"
              /\ results_dirs' = WithoutDir(results_dirs, job_id[s])
              /\ own_dir' = [own_dir EXCEPT ![s] = FALSE]
              /\ result' = [result EXCEPT ![s] = d]
              /\ sub_pc' = [sub_pc EXCEPT ![s] = "returned"]
              /\ UNCHANGED <<pending, submitted>>
       \/ \* lines 864-938: no log file, queue.txt found
          \E d \in SameParams(s) :
              /\ SameGuides(d, s)
              /\ results_dirs[d].log = "none"
              /\ results_dirs[d].queue
              /\ result' = [result EXCEPT ![s] = d]
              /\ sub_pc' = [sub_pc EXCEPT ![s] = "returned"]
              /\ UNCHANGED <<own_dir, results_dirs, pending, submitted>>
       \/ \* no directory ends the loop; lines 939-969: exeggutor.submit
          \* and the return of the job id
          /\ \A d \in SameParams(s) :
                 /\ ~GuidesUnreadable(d, s)
                 /\ SameGuides(d, s) =>
                        /\ results_dirs[d].log = "none"
                        /\ ~results_dirs[d].queue
          /\ pending' = Append(pending, job_id[s])
          /\ submitted' = submitted \cup {job_id[s]}
          /\ result' = [result EXCEPT ![s] = job_id[s]]
          /\ sub_pc' = [sub_pc EXCEPT ![s] = "returned"]
          /\ UNCHANGED <<own_dir, results_dirs>>
    /\ UNCHANGED <<request, job_id, running>>
    /\ UNCHANGED not_job_vars

\* a worker of the pool takes the job submitted first; the job leaves the
\* queue and its log file appears (lines 713-718 and 864-874)
job_start ==
    /\ pending # <<>>
    /\ Cardinality(running) < max_workers
    /\ running' = running \cup {Head(pending)}
    /\ pending' = Tail(pending)
    /\ results_dirs' =
           [results_dirs EXCEPT ![Head(pending)].log = "running",
                                ![Head(pending)].queue = FALSE]
    /\ UNCHANGED <<sub_pc, request, job_id, result, own_dir, submitted>>
    /\ UNCHANGED not_job_vars

\* the job ends: "Job\tDone" in its log file (line 730)
job_done ==
    /\ \E j \in running :
           /\ running' = running \ {j}
           /\ results_dirs' = [results_dirs EXCEPT ![j].log = "done"]
    /\ UNCHANGED <<sub_pc, request, job_id, result, own_dir, pending,
                   submitted>>
    /\ UNCHANGED not_job_vars

\* RESULTS_DIR at the start: empty, or with the directory of one earlier
\* submission whose search has ended (the state a single run of the actions
\* below leaves); its guides file is missing when its guides text was empty
EarlierResults ==
    {<<>>} \cup
    {[d \in {1} |-> [queue |-> FALSE, params |-> r.params,
                     guides |-> r.guides, log |-> "done"]] : r \in Requests}

InitJobs ==
    /\ pc = "change_url"
    /\ IdleCli
    /\ IdleWeb
    /\ loop_i = 0
    /\ id_len = 0
    /\ generated = 0
    /\ iterations_max = 0
    /\ sub_pc = [s \in Submissions |-> "mkdir"]
    /\ request \in [Submissions -> Requests]
    /\ job_id = [s \in Submissions |-> NoJob]
    /\ result = [s \in Submissions |-> NoJob]
    /\ own_dir = [s \in Submissions |-> FALSE]
    /\ results_dirs \in EarlierResults
    /\ pending = <<>>
    /\ running = {}
    /\ submitted = DOMAIN results_dirs
    /\ line = <<>>
    /\ pam_char = NoValue
    /\ pam_length = 0
    /\ pam_total_length = 0
    /\ pam_start = FALSE
    /\ sequence_arg = <<>>
    /\ sequence = <<>>
    /\ pam = <<>>
    /\ pattern = <<>>
    /\ guide_length = 1
    /\ pam_iupac = <<>>
    /\ pam_iupac_rev = <<>>
    /\ pos = <<>>
    /\ guides = <<>>
    /\ ret = NoValue
    /\ err = "none"

NextJobs ==
    \/ \E s \in Submissions : create_results_directory(s)
    \/ \E s \in Submissions : write_job_files(s)
    \/ \E s \in Submissions : check_previous_searches(s)
    \/ job_start
    \/ job_done

SpecJobs == InitJobs /\ [][NextJobs]_vars

-----------------------------------------------------------------------------
(* The loop of change_url that generates the job id (lines 353-374)         *)

\* id_len before the loop (line 354)
JobIdLen == 10

\* "if i > 7" (line 369)
RestartAfter == 7

\* JOBID_MAXLEN: "up to 20 chars as max length" (line 228)
JOBID_MAXLEN == 20

\* JOBID_ITERATIONS_MAX is any number of iterations
IterationsMax == 1..MaxIterations

\* one iteration whose id is assigned already (lines 356-374): the id has
\* id_len characters; "i = 0" does not change the next value the for loop
\* gives to i, so after RestartAfter every iteration adds 1 to id_len
job_id_assigned ==
    /\ pc = "job_id"
    /\ loop_i < iterations_max
    /\ generated' = id_len
    /\ IF loop_i > RestartAfter
       THEN /\ id_len' = id_len + 1
            /\ IF id_len + 1 > JOBID_MAXLEN
               THEN pc' = "mkdir" /\ loop_i' = loop_i
               ELSE pc' = pc /\ loop_i' = loop_i + 1
       ELSE /\ id_len' = id_len
            /\ pc' = pc
            /\ loop_i' = loop_i + 1
    /\ UNCHANGED <<iterations_max, job_vars, cli_vars, web_vars>>
    /\ UNCHANGED <<line, pam_char, pam_length, pam_total_length, pam_start,
                   sequence_arg, sequence, pam, pattern, guide_length,
                   pam_iupac, pam_iupac_rev, pos, guides, ret, err>>

\* one iteration whose id is not assigned (lines 356-368): break
job_id_suitable ==
    /\ pc = "job_id"
    /\ loop_i < iterations_max
    /\ generated' = id_len
    /\ pc' = "mkdir"
    /\ UNCHANGED <<loop_i, id_len, iterations_max, job_vars, cli_vars,
                   web_vars>>
    /\ UNCHANGED <<line, pam_char, pam_length, pam_total_length, pam_start,
                   sequence_arg, sequence, pam, pattern, guide_length,
                   pam_iupac, pam_iupac_rev, pos, guides, ret, err>>

\* range(JOBID_ITERATIONS_MAX) is used up (line 355)
job_id_loop_ends ==
    /\ pc = "job_id"
    /\ loop_i = iterations_max
    /\ pc' = "mkdir"
    /\ UNCHANGED <<id_vars, job_vars, cli_vars, web_vars>>
    /\ UNCHANGED <<line, pam_char, pam_length, pam_total_length, pam_start,
                   sequence_arg, sequence, pam, pattern, guide_length,
                   pam_iupac, pam_iupac_rev, pos, guides, ret, err>>

InitJobId ==
    /\ pc = "job_id"
    /\ IdleCli
    /\ IdleWeb
    /\ loop_i = 0
    /\ id_len = JobIdLen
    /\ generated = 0
    /\ iterations_max \in IterationsMax
    /\ sub_pc = <<>>
    /\ request = <<>>
    /\ job_id = <<>>
    /\ result = <<>>
    /\ own_dir = <<>>
    /\ results_dirs = <<>>
    /\ pending = <<>>
    /\ running = {}
    /\ submitted = {}
    /\ line = <<>>
    /\ pam_char = NoValue
    /\ pam_length = 0
    /\ pam_total_length = 0
    /\ pam_start = FALSE
    /\ sequence_arg = <<>>
    /\ sequence = <<>>
    /\ pam = <<>>
    /\ pattern = <<>>
    /\ guide_length = 1
    /\ pam_iupac = <<>>
    /\ pam_iupac_rev = <<>>
    /\ pos = <<>>
    /\ guides = <<>>
    /\ ret = NoValue
    /\ err = "none"

NextJobId ==
    \/ job_id_assigned
    \/ job_id_suitable
    \/ job_id_loop_ends

SpecJobId == InitJobId /\ [][NextJobId]_vars

-----------------------------------------------------------------------------
(* Vocabulary of the properties *)

\* s with its lower-case nucleotides in upper case
UpperCased(s) ==
    [k \in 1..Len(s) |->
        IF s[k] = "a" THEN "A"
        ELSE IF s[k] = "c" THEN "C"
        ELSE IF s[k] = "g" THEN "G"
        ELSE IF s[k] = "t" THEN "T"
        ELSE IF s[k] = "n" THEN "N"
        ELSE s[k]]

\* p occurs in s at the 0-based offset i
Occurs(p, s, i) ==
    /\ i >= 0
    /\ i + Len(p) <= Len(s)
    /\ \A k \in 1..Len(p) : s[i + k] = p[k]

\* the characters of s at the 0-based offsets a .. b-1
Between(s, a, b) == [k \in 1..(b - a) |-> s[a + k]]

\* number of entries of the list l that equal x
Count(l, x) == Cardinality({k \in 1..Len(l) : l[k] = x})

\* the hits (pattern, offset) of the patterns in the sequence
HitsOf(patterns, s) ==
    {h \in Range(patterns) \X (0..Len(s)) : Occurs(h[1], s, h[2])}

\* the guide lies before the hit at offset i and fits into the sequence
FitsBefore(i) == i >= guide_length

\* the guide lies after the hit at offset i and fits into the sequence
FitsAfter(i) == i + Len(pam) + guide_length <= Len(sequence)

GuideBefore(i) == Between(sequence, i - guide_length, i)

GuideAfter(i) == Between(sequence, i + Len(pam), i + Len(pam) + guide_length)

-----------------------------------------------------------------------------
(* C1 *)

\* the line is "<motif> <k>" with k # 0
IsDescriptor ==
    /\ Len(line) = 2
    /\ \E k \in ((0 - 99)..99) \ {0} : line[2] = IntToken(k)

DescriptorIndex == CHOOSE k \in ((0 - 99)..99) \ {0} : line[2] = IntToken(k)

\* C1: for a descriptor "<motif> <k>", parse_PAM_sequence_file returns the
\* first |k| characters of the motif with the PAM-start flag set when k is
\* negative, and the last k characters of the motif with the flag cleared
\* when k is positive (the whole motif when it has fewer characters); the
\* total length it reports is the length of the motif token.
C1_SignConvention ==
    (pc = "parsed" /\ IsDescriptor) =>
        LET motif == line[1]
            k == DescriptorIndex
            n == Min(IF k < 0 THEN 0 - k ELSE k, Len(motif))
        IN  /\ err = "none"
            /\ ret = <<pam_char, pam_length, pam_total_length, pam_start>>
            /\ pam_total_length = Len(motif)
            /\ IF k < 0
               THEN /\ pam_start = TRUE
                    /\ pam_char = [j \in 1..n |-> motif[j]]
               ELSE /\ pam_start = FALSE
                    /\ pam_char = [j \in 1..n |-> motif[Len(motif) - n + j]]

\* "GNAA -2" parsed: PAM GN in front of the guide
C1_Witness ==
    /\ pc = "parsed"
    /\ line = <<<<"G", "N", "A", "A">>, <<"-", "2">>>>
    /\ ret = <<<<"G", "N">>, 2, 4, TRUE>>

-----------------------------------------------------------------------------
(* C2 *)

\* C2: after the forward loop the guides list holds, for every hit of a
\* forward pattern at offset i of the upper-cased sequence, the slice
\* sequence[i - guide_length : i] when the PAM is downstream, unless
\* i < guide_length, and sequence[i + pam_length : i + pam_length +
\* guide_length] when the PAM is upstream, unless that slice would end after
\* the sequence; skipped hits contribute nothing and nothing else is there.
C2_ForwardExtraction ==
    pc = "reverse" =>
        LET Kept == {h \in HitsOf(pam_iupac, sequence) :
                        IF pam_start THEN FitsAfter(h[2]) ELSE FitsBefore(h[2])}
            GuideOf(h) == IF pam_start THEN GuideAfter(h[2]) ELSE GuideBefore(h[2])
        IN  /\ sequence = UpperCased(sequence_arg)
            /\ Len(guides) = Cardinality(Kept)
            /\ \A g \in Range(guides) \cup {GuideOf(h) : h \in Kept} :
                   Count(guides, g) = Cardinality({h \in Kept : GuideOf(h) = g})

\* upstream PAM G in "GCaG": the hit at offset 0 yields CA, the hit at
\* offset 3 is skipped
C2_Witness ==
    /\ pc = "reverse"
    /\ pam_start
    /\ pam = <<"G">>
    /\ guide_length = 2
    /\ sequence_arg = <<"G", "C", "a", "G">>
    /\ guides = <<<<"C", "A">>>>

-----------------------------------------------------------------------------
(* C3 *)

\* C3: the reverse loop appends, for every hit of a reverse pattern at offset
\* i, the reverse complement of sequence[i + pam_length : i + pam_length +
\* guide_length] when the PAM is downstream, unless that slice would end
\* after the sequence, and the reverse complement of
\* sequence[i - guide_length : i] when the PAM is upstream, unless
\* i < guide_length; it appends nothing else and keeps the forward guides.
C3_ReverseExtraction ==
    [][pc = "reverse" =>
        LET Kept == {h \in HitsOf(pam_iupac_rev, sequence) :
                        IF pam_start THEN FitsBefore(h[2]) ELSE FitsAfter(h[2])}
            GuideOf(h) == ReverseComplement(
                IF pam_start THEN GuideBefore(h[2]) ELSE GuideAfter(h[2]))
            tail == SubSeq(guides', Len(guides) + 1, Len(guides'))
        IN  /\ Len(guides') >= Len(guides)
            /\ SubSeq(guides', 1, Len(guides)) = guides
            /\ Len(tail) = Cardinality(Kept)
            /\ \A g \in Range(tail) \cup {GuideOf(h) : h \in Kept} :
                   Count(tail, g) = Cardinality({h \in Kept : GuideOf(h) = g})
      ]_vars

\* downstream PAM G in "CAC": the reverse hit C at offset 0 yields the
\* reverse complement of AC, the reverse hit at offset 2 is skipped
C3_Witness ==
    /\ pc = "done"
    /\ ~pam_start
    /\ pam = <<"G">>
    /\ guide_length = 2
    /\ sequence = <<"C", "A", "C">>
    /\ ret = <<<<"G", "T">>>>

-----------------------------------------------------------------------------
(* C4 *)

\* C4: every guide collected or returned by get_guides has exactly
\* guide_length characters; a hit too close to an edge adds no guide.
C4_FullLengthGuides ==
    /\ \A k \in 1..Len(guides) : Len(guides[k]) = guide_length
    /\ ret # NoValue => \A k \in 1..Len(ret) : Len(ret[k]) = guide_length

\* downstream PAM G in "GAG": the hit at offset 0 has no room for a guide,
\* the hit at offset 2 yields A
C4_Witness ==
    /\ pc = "done"
    /\ ~pam_start
    /\ pam = <<"G">>
    /\ guide_length = 1
    /\ sequence = <<"G", "A", "G">>
    /\ ret = <<<<"A">>>>

-----------------------------------------------------------------------------
(* C5 *)

\* C5: the guide collection returned by the extraction contains each guide
\* string at most once.
C5_Deduplicated ==
    (pc = "done" /\ ret # NoValue) =>
        \A j, k \in 1..Len(ret) : ret[j] = ret[k] => j = k

-----------------------------------------------------------------------------
(* C6 *)

\* C6: when no hit on either strand survives, the extraction returns an
\* empty collection and does not raise.
C6_EmptyIsNotAnError ==
    (pc = "done" /\ guides = <<>>) => (err = "none" /\ ret = <<>>)

-----------------------------------------------------------------------------
(* C7 *)

\* the concrete bases an IUPAC code stands for
BasesOf(c) ==
    CASE c = "A" -> {"A"}
      [] c = "C" -> {"C"}
      [] c = "G" -> {"G"}
      [] c = "T" -> {"T"}
      [] c = "R" -> {"A", "G"}
      [] c = "Y" -> {"C", "T"}
      [] c = "S" -> {"C", "G"}
      [] c = "W" -> {"A", "T"}
      [] c = "K" -> {"G", "T"}
      [] c = "M" -> {"A", "C"}
      [] c = "B" -> {"C", "G", "T"}
      [] c = "D" -> {"A", "G", "T"}
      [] c = "H" -> {"A", "C", "T"}
      [] c = "V" -> {"A", "C", "G"}
      [] c = "N" -> {"A", "C", "G", "T"}

\* the codes other than N that share a base with the code c
CodesMatching(c) ==
    {x \in IUPACSymbols \ {"N"} : BasesOf(x) \cap BasesOf(c) # {}}

RECURSIVE SizeOfProduct(_, _)
SizeOfProduct(p, k) ==
    IF k > Len(p) THEN 1
    ELSE Cardinality(CodesMatching(p[k])) * SizeOfProduct(p, k + 1)

IsConcrete(w) == \A k \in 1..Len(w) : w[k] \in Bases

NGGConcrete ==
    {<<"A", "G", "G">>, <<"C", "G", "G">>, <<"G", "G", "G">>, <<"T", "G", "G">>}

-----------------------------------------------------------------------------
(* C8 *)

\* C8: the reverse patterns, expanded from the reverse complement of the PAM
\* symbols, are exactly the reverse complements of the forward patterns; for
\* a single symbol, the table entry of its complement holds exactly the
\* complements of its own entry.
C8_ReverseComplementConsistency ==
    pc = "forward" =>
        /\ Range(pam_iupac_rev) = {ReverseComplement(w) : w \in Range(pam_iupac)}
        /\ Len(pam) = 1 =>
               Range(PAM_DICT(ComplementChar(pam[1])))
                   = {ComplementChar(x) : x \in Range(PAM_DICT(pam[1]))}

\* PAM RG: the forward pattern AG and the reverse pattern CT
C8_Witness ==
    /\ pc = "forward"
    /\ pam = <<"R", "G">>
    /\ <<"A", "G">> \in Range(pam_iupac)
    /\ <<"C", "T">> \in Range(pam_iupac_rev)
    /\ <<"T", "C">> \notin Range(pam_iupac_rev)

-----------------------------------------------------------------------------
(* C9 *)

\* C9: a scan reports every offset at which the pattern occurs in the
\* sequence, overlapping occurrences included, each once and nothing else;
\* AA in AAAA is found at the offsets 0, 1, 2.
C9_OverlappingMatches ==
    pc = "scanned" =>
        /\ Range(pos) = {i \in 0..Len(sequence) : Occurs(pattern, sequence, i)}
        /\ Cardinality(Range(pos)) = Len(pos)
        /\ (pattern = <<"A", "A">> /\ sequence = <<"A", "A", "A", "A">>)
               => Range(pos) = {0, 1, 2}

\* AA scanned over AAAA
C9_Witness ==
    /\ pc = "scanned"
    /\ pattern = <<"A", "A">>
    /\ sequence = <<"A", "A", "A", "A">>
    /\ pos = <<0, 1, 2>>

-----------------------------------------------------------------------------
(* C10 *)

\* the sequence is guide + pam for a concrete guide and a concrete PAM
\* located downstream
IsGuidePlusPam ==
    /\ ~pam_start
    /\ IsConcrete(pam)
    /\ IsConcrete(sequence_arg)
    /\ Len(sequence_arg) = guide_length + Len(pam)
    /\ Between(sequence_arg, guide_length, Len(sequence_arg)) = pam

GuideOfSequence == Between(sequence_arg, 0, guide_length)

\* C10 (as stated): extraction from guide + pam returns exactly {guide}.
C10_RoundTrip ==
    (pc = "done" /\ IsGuidePlusPam) =>
        /\ err = "none"
        /\ Range(ret) = {GuideOfSequence}

\* C10 (amended): extraction from guide + pam returns the guide, found on
\* the forward strand; it returns no other guide unless guide + pam begins
\* with the reverse complement of the PAM, in which case it also returns the
\* reverse complement of the last guide_length characters of guide + pam.
C10_RoundTripBothStrands ==
    (pc = "done" /\ IsGuidePlusPam) =>
        /\ err = "none"
        /\ IF Occurs(ReverseComplement(pam), sequence_arg, 0)
           THEN ret = <<GuideOfSequence,
                        ReverseComplement(
                            Between(sequence_arg, Len(pam), Len(sequence_arg)))>>
           ELSE ret = <<GuideOfSequence>>

\* guide CA, PAM G: CAG begins with C, the reverse complement of the PAM
C10_Witness ==
    /\ pc = "done"
    /\ ~pam_start
    /\ pam = <<"G">>
    /\ guide_length = 2
    /\ sequence_arg = <<"C", "A", "G">>
    /\ ret = <<<<"C", "A">>, <<"C", "T">>>>

-----------------------------------------------------------------------------
(* C11 *)

A20 == Run("A", Cas9GuideLen)

\* C11: from 20 A's followed by TGG, with PAM NGG downstream of the guide
\* and guide_length 20, the PAM is found at offset 20 and the returned guide
\* is the leading 20 A's.
C11_ForwardScenario ==
    (/\ sequence_arg = A20 \o <<"T", "G", "G">>
     /\ pam = NGG /\ guide_length = 20 /\ ~pam_start)
    => /\ pc = "reverse" =>
              /\ HitsOf(pam_iupac, sequence) = {<<<<"T", "G", "G">>, 20>>}
              /\ guides = <<A20>>
       /\ pc = "done" => (err = "none" /\ ret = <<A20>>)

\* the 20 A's returned for AAAAAAAAAAAAAAAAAAAATGG
C11_Witness ==
    /\ pc = "done"
    /\ sequence_arg = A20 \o <<"T", "G", "G">>
    /\ ~pam_start
    /\ ret = <<A20>>

-----------------------------------------------------------------------------
(* C12 *)

\* C12 (as stated): from CC followed by 20 A's, with PAM NGG downstream and
\* guide_length 20, the guide of 20 A's is returned.
C12_ReverseScenario ==
    (/\ pc = "done"
     /\ sequence_arg = <<"C", "C">> \o A20
     /\ pam = NGG /\ guide_length = 20 /\ ~pam_start)
    => (err = "none" /\ ret = <<A20>>)

\* C12 (amended): from the reverse complement of the forward scenario's
\* sequence, CCA followed by 20 T's, with PAM NGG downstream and
\* guide_length 20, the reverse hit at offset 0 yields the guide of 20 A's,
\* the same guide as the forward scenario, and no other guide.
C12_ReverseComplementScenario ==
    (/\ pc = "done"
     /\ sequence_arg = ReverseComplement(A20 \o <<"T", "G", "G">>)
     /\ pam = NGG /\ guide_length = 20 /\ ~pam_start)
    => /\ sequence_arg = <<"C", "C", "A">> \o Run("T", 20)
       /\ HitsOf(pam_iupac, sequence) = {}
       /\ HitsOf(pam_iupac_rev, sequence) = {<<<<"C", "C", "A">>, 0>>}
       /\ err = "none"
       /\ ret = <<A20>>

\* the 20 A's returned for CCATTTTTTTTTTTTTTTTTTTT
C12_Witness ==
    /\ pc = "done"
    /\ sequence_arg = <<"C", "C", "A">> \o Run("T", 20)
    /\ ~pam_start
    /\ ret = <<A20>>

-----------------------------------------------------------------------------
(* C13 *)

\* C13: whenever total_length - pam_length <= 0 for the descriptor, the
\* parser fails and returns no PAM tuple.
C13_InvalidGeometryFails ==
    (pc = "parsed" /\ pam_total_length - pam_length <= 0) =>
        (err # "none" /\ ret = NoValue)

-----------------------------------------------------------------------------
(* C14 *)

\* C14: a descriptor whose signed integer is 0 makes the parser fail; it
\* returns no PAM.
C14_ZeroOffsetFails ==
    (pc = "parsed" /\ Len(line) = 2 /\ line[2] = <<"0">>) =>
        (err # "none" /\ ret = NoValue)

-----------------------------------------------------------------------------
(* C15 *)

\* the token is the text of an integer
IsIntegerText(t) == \E k \in (0 - 99)..99 : t = IntToken(k)

\* the trailing token is no integer, or there is no motif in front of it
IsMalformed ==
    \/ line = <<>>
    \/ ~IsIntegerText(line[Len(line)])
    \/ Len(line) = 1

\* C15: the parser fails and returns no PAM tuple whenever the trailing
\* token is no integer or the motif is empty (blank line, or only the
\* integer).
C15_MalformedFails ==
    (pc = "parsed" /\ IsMalformed) => (err # "none" /\ ret = NoValue)

-----------------------------------------------------------------------------
(* C16 *)

\* C16: a PAM written in lower case expands to the same forward and reverse
\* patterns as the same PAM in upper case, and a PAM with a character that is
\* no IUPAC code in either case ends in an unknown-symbol error with no guide
\* produced.
C16_CaseInsensitiveClosedLookup ==
    pc # "get_guides" =>
        IF \A j \in 1..Len(pam) : UpperCased(pam)[j] \in IUPACSymbols
        THEN /\ err = "none"
             /\ pam_iupac = ForwardPatterns(UpperCased(pam))
             /\ pam_iupac_rev = ReversePatterns(UpperCased(pam))
        ELSE /\ err = "KeyError"
             /\ guides = <<>>
             /\ ret = NoValue

-----------------------------------------------------------------------------
(* C17 *)

\* the sequences of every block of the file, in file order
RegionsOf(file) ==
    Concat([k \in 1..Len(file) |-> file[k].regions], 1, Len(file))

\* the sequence was fetched and holds a guide
YieldsGuides(r) ==
    /\ r.fetched
    /\ GetGuides(r.sequence, pam, guide_length, pam_start).err = "none"

\* the guides extracted from the sequences rs, sequence by sequence
ExtractedGuides(rs) ==
    Concat([k \in 1..Len(rs) |->
               GetGuides(rs[k].sequence, pam, guide_length, pam_start).value],
           1, Len(rs))

\* the guide with as many N as the PAM is long on the side of the PAM
Padded(g) ==
    IF pam_start THEN Run("N", pam_length) \o g ELSE g \o Run("N", pam_length)

\* C17: when every sequence of the file yields guides,
\* parse_guide_sequences_file returns one string per extracted guide, the
\* guide with pam_length N in front (PAM upstream) or behind (PAM
\* downstream), of length pam_length + guide_length.
C17_CliPadding ==
    (/\ pc = "returned"
     /\ \A k \in 1..Len(RegionsOf(sequences_raw)) :
            YieldsGuides(RegionsOf(sequences_raw)[k]))
        => LET g == ExtractedGuides(RegionsOf(sequences_raw))
           IN  /\ err = "none"
               /\ ret = [k \in 1..Len(g) |-> Padded(g[k])]
               /\ \A k \in 1..Len(g) : Len(ret[k]) = pam_length + guide_length

-----------------------------------------------------------------------------
(* C19 *)

\* C19: when a sequence of the file fails (it is not fetched, or it holds no
\* guide), the failure is reported and the guides of every sequence that
\* yields guides are still produced.
C19_FailureIsolation ==
    LET rs == RegionsOf(sequences_raw)
    IN  (/\ pc = "returned"
         /\ \E k \in 1..Len(rs) : ~YieldsGuides(rs[k]))
            => /\ err # "none"
               /\ \A j \in 1..Len(rs) :
                      YieldsGuides(rs[j]) =>
                          GetGuides(rs[j].sequence, pam, guide_length,
                                    pam_start).value \in Range(guides)

-----------------------------------------------------------------------------
(* C18 *)

\* C18: every line of the guides file written by change_url is a guide of
\* exactly guide_seqlen characters with pam_len N on the side of the PAM, in
\* front when the PAM is at the beginning and behind otherwise, so every
\* line has guide_seqlen + pam_len characters.
C18_WebPadding ==
    (pc = "submitted" /\ guides_file # <<>>) =>
        \A k \in 1..Len(guides_file) :
            LET l == guides_file[k]
            IN  /\ Len(l) = guide_seqlen + pam_len
                /\ IF pam_begin
                   THEN SubSeq(l, 1, pam_len) = Run("N", pam_len)
                   ELSE SubSeq(l, guide_seqlen + 1, Len(l)) = Run("N", pam_len)

-----------------------------------------------------------------------------
(* C21 *)

\* the list holds no entry twice
NoDuplicate(l) == \A j, k \in 1..Len(l) : l[j] = l[k] => j = k

\* the offsets of s at which a pattern of the list occurs
HitOffsets(patterns, s) ==
    {i \in 0..Len(s) : \E k \in 1..Len(patterns) : Occurs(patterns[k], s, i)}

\* C21: neither the forward nor the reverse pattern list holds a pattern
\* twice, and each offset of the sequence contributes at most one guide per
\* strand: the forward loop appends at most one guide per offset where a
\* forward pattern occurs, and the reverse loop at most one per offset
\* where a reverse pattern occurs.
C21_NoDoubleCounting ==
    /\ pc \in {"forward", "reverse"} =>
           /\ NoDuplicate(pam_iupac)
           /\ NoDuplicate(pam_iupac_rev)
    /\ pc = "reverse" =>
           Len(guides) <= Cardinality(HitOffsets(pam_iupac, sequence))
    /\ (pc = "done" /\ err # "KeyError") =>
           Len(guides) <= Cardinality(HitOffsets(pam_iupac, sequence))
                              + Cardinality(HitOffsets(pam_iupac_rev, sequence))

\* the PAM AT is its own reverse complement: in CATG it occurs at offset 1
\* on both strands, and each strand contributes one guide
C21_Witness ==
    /\ pc = "done"
    /\ pam = <<"A", "T">>
    /\ ~pam_start
    /\ guide_length = 1
    /\ sequence_arg = <<"C", "A", "T", "G">>
    /\ pam_iupac = pam_iupac_rev
    /\ ret = <<<<"C">>, <<"C">>>>

-----------------------------------------------------------------------------
(* C22 *)

-----------------------------------------------------------------------------
(* C26 *)

\* C26: for a sequence of bases, get_guides extracts the same set of guides
\* from the sequence and from its reverse complement, and finds no guide in
\* the one exactly when it finds none in the other.
C26_StrandSymmetry ==
    pc = "done" =>
        LET r == GetGuides(ReverseComplement(sequence_arg), pam, guide_length,
                           pam_start)
        IN  /\ err = r.err
            /\ err = "none" => Range(ret) = Range(r.value)

\* AAG with PAM NG behind the guide: A is found on the forward strand, and
\* in the reverse complement CTT on the reverse strand only
C26_Witness ==
    /\ pc = "done"
    /\ pam = <<"N", "G">>
    /\ ~pam_start
    /\ guide_length = 1
    /\ sequence_arg = <<"A", "A", "G">>
    /\ ret = <<<<"A">>>>
    /\ ForwardLoop(<<"C", "T", "T">>, pam_iupac, 2, 1, FALSE) = <<>>
    /\ ReverseLoop(<<"C", "T", "T">>, pam_iupac_rev, 2, 1, FALSE) = <<<<"A">>>>

-----------------------------------------------------------------------------
(* C23 *)

\* another directory holds the parameters file and the guides of s
HoldsSameSearch(d, s) ==
    /\ d \in DOMAIN results_dirs
    /\ d # job_id[s]
    /\ results_dirs[d].params = request[s].params
    /\ results_dirs[d].guides # NoValue
    /\ results_dirs[d].guides = request[s].guides

\* C23: whenever a submission compares its files with a results directory
\* that holds an identical parameters file and the same guides, it returns
\* the id of such a directory and no new search is submitted.
C23_ResultReuse ==
    [][\A s \in Submissions :
           (/\ sub_pc[s] = "compare"
            /\ sub_pc'[s] # "compare"
            /\ \E d \in JobIds : HoldsSameSearch(d, s))
               => /\ sub_pc'[s] = "returned"
                  /\ HoldsSameSearch(result'[s], s)
                  /\ submitted' = submitted]_vars

-----------------------------------------------------------------------------
(* C24 *)

\* C24: two submissions that got past the creation of their results
\* directory and still have it never have the same job id, also when they
\* run at the same time; the directory of a submission is in RESULTS_DIR.
C24_DistinctJobIds ==
    /\ \A s, t \in Submissions :
           (s # t /\ own_dir[s] /\ own_dir[t]) => job_id[s] # job_id[t]
    /\ \A s \in Submissions : own_dir[s] => job_id[s] \in DOMAIN results_dirs

\* two submissions at once generated the same id: one has the directory,
\* the other failed at mkdir
C24_Witness ==
    \E s, t \in Submissions :
        /\ s # t
        /\ job_id[s] = job_id[t]
        /\ own_dir[s]
        /\ sub_pc[s] = "write"
        /\ sub_pc[t] = "raised"
        /\ ~own_dir[t]

-----------------------------------------------------------------------------
(* C25 *)

\* C25: at most 2 submitted jobs execute at the same time, and a submitted
\* job waits only as a further job: while fewer than 2 jobs execute, a
\* waiting job can be started.
C25_TwoJobsAtOnce ==
    /\ Cardinality(running) <= 2
    /\ (pending # <<>> /\ Cardinality(running) < 2) => ENABLED job_start

-----------------------------------------------------------------------------
(* C29 *)

\* C29: once every submission has ended, every job id returned names a
\* search that was submitted to the executor, and every results directory
\* that a submission which returned has left with a queue marker has a
\* submitted search.
C29_NoOrphanedJobs ==
    (\A s \in Submissions : sub_pc[s] \in {"returned", "raised"}) =>
        \A s \in Submissions :
            sub_pc[s] = "returned" =>
                /\ result[s] \in submitted
                /\ (own_dir[s] /\ results_dirs[job_id[s]].queue) =>
                       job_id[s] \in submitted

-----------------------------------------------------------------------------
(* C30 *)

\* C30: in the loop that generates the job id, the id length starts at 10
\* and has grown by at most 1 for every 7 iterations whose id was assigned
\* already, and no id generated has more than 20 characters.
C30_IdLengthGrowth ==
    (pc \in {"job_id", "mkdir"} /\ iterations_max > 0) =>
        /\ id_len >= 10
        /\ id_len <= 10 + (loop_i \div 7)
        /\ generated <= 20

-----------------------------------------------------------------------------
(* C27 and C28 *)

\* the guides change_url has appended, whatever call they came from
GsCollected == UNION {guides[k] : k \in 1..Len(guides)}

\* the guides of S in one fixed order
InOrder(S) == CHOOSE f \in [1..Cardinality(S) -> S] : Range(f) = S

\* the lines of the guides file that follow from the guides collected:
\* no order of the deduplicating set enters it
FileOfCollected ==
    PadLines(LimitGuides(RemoveForbidden(
                 SuitableGuides(RemoveNs(InOrder(GsCollected)), guide_seqlen),
                 VALID_CHARS)),
             pam_begin, pam_len)

C28_CallbacksAgree ==
    /\ (pc = "change_url_gs" /\ block > Len(sequences_raw)
            /\ check_guides # Range(JoinedPlaceholder(guide_seqlen))) =>
           GsCollected = check_guides
    /\ (pc \in {"raised", "change_url"} /\ sequences_raw # <<>>) =>
           /\ err = "none"
           /\ Range(text_guides) = check_guides

=============================================================================
